---- MODULE Spec2Model ----
(***************************************************************************)
(* MoneySavyy web application (money_savyy_website/app.py): the tiered     *)
(* data acquisition behind /api/analyze/<symbol>, its pickle cache, the    *)
(* fixed-window rate limiter for Yahoo Finance, and the recommendation     *)
(* scorer.                                                                 *)
(*                                                                         *)
(* Time is counted in seconds and passes between requests (Advance) and   *)
(* while the rate limiter sleeps; the short randomised sleeps of the code  *)
(* (0.5-4 s) are below the resolution of TimeSteps.                        *)
(***************************************************************************)
EXTENDS Integers, Sequences, FiniteSets, TLC

VARIABLES
    clock,              \* time.time()
    cache,              \* the files of CACHE_DIR, by file name
    last_request_time,  \* module-level dict, key 'yahoo'
    request_count,      \* module-level dict, key 'yahoo'
    rl_call,            \* the latest call of rate_limit_yahoo_finance, as observed
    pc,                 \* position of the request being served
    symbol,             \* symbol resolved by search_stock_symbol
    real_price_data,    \* local of get_stock_data_with_retry
    minimal_data,       \* local of get_stock_data_with_retry
    attempt,            \* loop variable of get_stock_data_fallback_strategy
    result,             \* value returned by get_stock_data_with_retry
    log,                \* what the request did so far, in order
    response,           \* JSON answer of analyze_stock_api
    cache_read,         \* the latest load_from_cache, as observed
    rec_in,             \* arguments of the latest generate_trading_recommendation
    rec_out,            \* its return value
    rec_seen,           \* every scorer call so far: which scorer, arguments, result
    search_call,        \* the latest search_stock_symbol: input and result
    threads,            \* request threads inside rate_limit_yahoo_finance
    series              \* the synthetic close series being built, if any

vars == <<clock, cache, last_request_time, request_count, rl_call, pc, symbol,
          real_price_data, minimal_data, attempt, result, log, response,
          cache_read, rec_in, rec_out, rec_seen, search_call, threads, series>>

----------------------------------------------------------------------------
(* Bounds of the model *)

MaxClock == 600
MaxCount == 3

(* Program constants *)

CACHE_DURATION == 300
RATE_WINDOW == 60
RATE_MAX == 5
max_retries == 2
RSI_WINDOW == 14
RSI_DEFAULT == 50
MACD_DEFAULT == 0

TimeSteps == {300}

None == "None"

----------------------------------------------------------------------------
(* dict.get(key, default) on a dict with at most the key 'yahoo' *)
DictGet(d, k, default) == IF k \in DOMAIN d THEN d[k] ELSE default

EmptyDict == [k \in {} |-> 0]

DictSet(d, k, v) == [x \in (DOMAIN d) \cup {k} |-> IF x = k THEN v ELSE d[x]]

----------------------------------------------------------------------------
(* Values handed around by the acquisition chain.                          *)
(* shape: what Python object it is; tier: where the data came from;        *)
(* bars: rows of hist_data (-1: hist_data is None).                        *)

Tiers == <<"cache", "real", "alt", "demo", "minimal", "full", "mock">>

NoData == [shape |-> None, tier |-> "-", price |-> 0, open |-> 0, bars |-> -1,
           is_real |-> FALSE, ticker |-> None]

FALLBACK_MODE == [NoData EXCEPT !.shape = "FALLBACK_MODE"]

LivePrices == {110}
OpenPrices == {0, 108}
YahooBars == {5, 22}
SyntheticBars == 30
MockBars == 180

(* Strings are sequences of one-character strings, so that lower(), strip(),
   'in', upper() and difflib work on them as in Python *)

LowerCase == <<"a", "b", "c", "d", "e", "f", "g", "h", "i", "j", "k", "l", "m", "n",
               "o", "p", "q", "r", "s", "t", "u", "v", "w", "x", "y", "z">>
UpperCase == <<"A", "B", "C", "D", "E", "F", "G", "H", "I", "J", "K", "L", "M", "N",
               "O", "P", "Q", "R", "S", "T", "U", "V", "W", "X", "Y", "Z">>

\* code-point order of the characters of the model
CharOrder == <<" ", "&", ".">> \o UpperCase \o <<"_">> \o LowerCase

Ord(c) == CHOOSE k \in 1..Len(CharOrder) : CharOrder[k] = c

\* str.lower() and str.upper()
lower(x) ==
    [k \in 1..Len(x) |->
        IF \E u \in 1..Len(UpperCase) : UpperCase[u] = x[k]
        THEN LowerCase[CHOOSE u \in 1..Len(UpperCase) : UpperCase[u] = x[k]]
        ELSE x[k]]

upper(x) ==
    [k \in 1..Len(x) |->
        IF \E u \in 1..Len(LowerCase) : LowerCase[u] = x[k]
        THEN UpperCase[CHOOSE u \in 1..Len(LowerCase) : LowerCase[u] = x[k]]
        ELSE x[k]]

\* str.strip(): blanks off both ends
RECURSIVE strip(_)
strip(x) ==
    IF Len(x) = 0 THEN x
    ELSE IF x[1] = " " THEN strip(Tail(x))
    ELSE IF x[Len(x)] = " " THEN strip(SubSeq(x, 1, Len(x) - 1))
    ELSE x

\* x in y, for strings
Contains(y, x) ==
    \E k \in 0..(Len(y) - Len(x)) : SubSeq(y, k + 1, k + Len(x)) = x

\* x < y, for strings
RECURSIVE StrLess(_, _)
StrLess(x, y) ==
    IF Len(y) = 0 THEN FALSE
    ELSE IF Len(x) = 0 THEN TRUE
    ELSE IF x[1] = y[1] THEN StrLess(Tail(x), Tail(y))
    ELSE Ord(x[1]) < Ord(y[1])

\* INDIAN_STOCKS in the order of the source, restricted to seven of its entries
INDIAN_STOCKS ==
    << [name |-> <<"t", "c", "s">>, symbol |-> <<"T", "C", "S", ".", "N", "S">>],
       [name |-> <<"t", "a", "t", "a", " ", "c", "o", "n", "s", "u", "l", "t", "a", "n",
                   "c", "y", " ", "s", "e", "r", "v", "i", "c", "e", "s">>,
        symbol |-> <<"T", "C", "S", ".", "N", "S">>],
       [name |-> <<"w", "i", "p", "r", "o">>,
        symbol |-> <<"W", "I", "P", "R", "O", ".", "N", "S">>],
       [name |-> <<"h", "d", "f", "c", " ", "b", "a", "n", "k">>,
        symbol |-> <<"H", "D", "F", "C", "B", "A", "N", "K", ".", "N", "S">>],
       [name |-> <<"h", "d", "f", "c">>,
        symbol |-> <<"H", "D", "F", "C", "B", "A", "N", "K", ".", "N", "S">>],
       [name |-> <<"s", "b", "i">>, symbol |-> <<"S", "B", "I", "N", ".", "N", "S">>],
       [name |-> <<"i", "t", "c">>, symbol |-> <<"I", "T", "C", ".", "N", "S">>] >>

\* position of a key in the dict, 0 when it is not a key
KeyIndex(x) ==
    IF \E k \in 1..Len(INDIAN_STOCKS) : INDIAN_STOCKS[k].name = x
    THEN CHOOSE k \in 1..Len(INDIAN_STOCKS) : INDIAN_STOCKS[k].name = x
    ELSE 0

\* for stock_name, stock_data in INDIAN_STOCKS.items(): the first entry from k on
\* with user_input in stock_name or stock_name in user_input; 0 when the loop ends
RECURSIVE first_partial(_, _)
first_partial(x, k) ==
    IF k > Len(INDIAN_STOCKS) THEN 0
    ELSE IF Contains(INDIAN_STOCKS[k].name, x) \/ Contains(x, INDIAN_STOCKS[k].name) THEN k
    ELSE first_partial(x, k + 1)

\* difflib.SequenceMatcher without junk: length of the common run of a from i
\* and b from j, inside a[..ahi] and b[..bhi]
RECURSIVE run_length(_, _, _, _, _, _)
run_length(a, b, i, j, ahi, bhi) ==
    IF i > ahi \/ j > bhi THEN 0
    ELSE IF a[i] # b[j] THEN 0
    ELSE 1 + run_length(a, b, i + 1, j + 1, ahi, bhi)

\* find_longest_match(alo, ahi, blo, bhi): the longest block, of those the one
\* that starts earliest in a, of those the one that starts earliest in b
find_longest_match(a, b, alo, ahi, blo, bhi) ==
    LET size(q) == run_length(a, b, q[1], q[2], ahi, bhi)
        starts == (alo..ahi) \X (blo..bhi)
        longest == {q \in starts : \A r \in starts : size(r) <= size(q)}
        first_a == {q \in longest : \A r \in longest : q[1] <= r[1]}
        q == CHOOSE q \in first_a : \A r \in first_a : q[2] <= r[2]
    IN [i |-> q[1], j |-> q[2], size |-> size(q)]

\* sum of the sizes of get_matching_blocks()
RECURSIVE matching_size(_, _, _, _, _, _)
matching_size(a, b, alo, ahi, blo, bhi) ==
    IF alo > ahi \/ blo > bhi THEN 0
    ELSE LET m == find_longest_match(a, b, alo, ahi, blo, bhi)
         IN IF m.size = 0 THEN 0
            ELSE m.size
                 + matching_size(a, b, alo, m.i - 1, blo, m.j - 1)
                 + matching_size(a, b, m.i + m.size, ahi, m.j + m.size, bhi)

\* ratio() = 2.0 * matches / (len(a) + len(b)), as a fraction; 1.0 for two
\* empty strings
ratio(a, b) ==
    IF Len(a) + Len(b) = 0 THEN [num |-> 1, den |-> 1]
    ELSE [num |-> 2 * matching_size(a, b, 1, Len(a), 1, Len(b)),
          den |-> Len(a) + Len(b)]

\* ratio >= cutoff, cutoff = 0.6
AtLeastCutoff(r) == 10 * r.num >= 6 * r.den

\* get_close_matches(word, INDIAN_STOCKS.keys(), n, cutoff=0.6)[0]: the key of
\* the largest (ratio, key) among those that reach the cutoff; 0 when none does
best_close_match(word) ==
    LET score(k) == ratio(INDIAN_STOCKS[k].name, word)
        close == {k \in 1..Len(INDIAN_STOCKS) : AtLeastCutoff(score(k))}
        Below(k, l) ==
            \/ score(k).num * score(l).den < score(l).num * score(k).den
            \/ /\ score(k).num * score(l).den = score(l).num * score(k).den
               /\ StrLess(INDIAN_STOCKS[k].name, INDIAN_STOCKS[l].name)
    IN IF close = {} THEN 0
       ELSE CHOOSE k \in close :
                \A l \in close : INDIAN_STOCKS[l].name = INDIAN_STOCKS[k].name \/ Below(l, k)

search_stock_symbol_PartialFirst(user_input) ==
    LET x == strip(lower(user_input))
        partial == first_partial(x, 1)
    IN IF partial > 0
       THEN [symbol |-> INDIAN_STOCKS[partial].symbol, name |-> INDIAN_STOCKS[partial].name]
       ELSE [symbol |-> upper(x) \o <<".", "N", "S">>, name |-> x]

\* search_stock_symbol: (symbol, matched name); the logo is left out
search_stock_symbol(user_input) ==
    LET x == strip(lower(user_input))
        exact == KeyIndex(x)
        partial == first_partial(x, 1)
        fuzzy == best_close_match(x)
    IN IF exact > 0
       THEN [symbol |-> INDIAN_STOCKS[exact].symbol, name |-> x]
       ELSE IF partial > 0
       THEN [symbol |-> INDIAN_STOCKS[partial].symbol, name |-> INDIAN_STOCKS[partial].name]
       ELSE IF fuzzy > 0
       THEN [symbol |-> INDIAN_STOCKS[fuzzy].symbol, name |-> INDIAN_STOCKS[fuzzy].name]
       ELSE [symbol |-> upper(x) \o <<".", "N", "S">>, name |-> x]

\* the inputs of the requests of the model
Queries == {<<"t", "c", "s">>, <<"W", "i", "p", "r", "o", " ">>}

\* the symbols of the model as atoms, and their characters
Chars(sym) ==
    CASE sym = "TCS.NS" -> <<"T", "C", "S", ".", "N", "S">>
      [] sym = "WIPRO.NS" -> <<"W", "I", "P", "R", "O", ".", "N", "S">>
      [] sym = "M.M.NS" -> <<"M", ".", "M", ".", "N", "S">>
      [] sym = "M_M.NS" -> <<"M", "_", "M", ".", "N", "S">>

Str(chars) == CHOOSE sym \in {"TCS.NS", "WIPRO.NS", "M.M.NS", "M_M.NS"} : Chars(sym) = chars

Symbols == {Str(search_stock_symbol(q).symbol) : q \in Queries}

\* symbol.replace('.NS', '') in ['TCS', 'RELIANCE', 'INFY', 'ITC', 'HDFCBANK']
PopularIndian(sym) == sym \in {"TCS.NS", "RELIANCE.NS", "INFY.NS", "ITC.NS", "HDFCBANK.NS"}

\* the bare tickers Strategy 1 also takes as Indian
BareIndian ==
    {"TCS", "RELIANCE", "INFY", "ITC", "HDFCBANK", "ICICIBANK", "LT", "SBIN", "WIPRO",
     "BAJFINANCE"}

IsIndian_BareOnly(sym) == sym \in BareIndian

\* symbol.endswith('.NS') or symbol in [...]
IsIndian(sym) ==
    LET c == Chars(sym)
    IN \/ Len(c) >= 3 /\ SubSeq(c, Len(c) - 2, Len(c)) = <<".", "N", "S">>
       \/ sym \in BareIndian

\* indian_stock_data of get_enhanced_indian_demo_data, prices in whole rupees
DemoPrice(sym) ==
    CASE sym = "TCS.NS" -> 3850
      [] OTHER -> 0

\* MOCK_STOCK_DATA.get(symbol, default)
MockEntry(sym) ==
    CASE sym = "TCS.NS" -> [price |-> 3500, open |-> 3480, recommendation |-> "BUY"]
      [] sym = "ICICIBANK.NS" -> [price |-> 950, open |-> 945, recommendation |-> "BUY"]
      [] OTHER -> [price |-> 1000, open |-> 995, recommendation |-> "HOLD"]

----------------------------------------------------------------------------
(* Cache: one pickle file per symbol *)

\* symbols handed to the cache: those of the table and two that
\* search_stock_symbol builds from the inputs 'm.m' and 'm_m' by its last rule
CacheSymbols == Symbols \cup {"M.M.NS", "M_M.NS"}

\* str.replace(old, new) for one-character strings
replace(chars, old, new) ==
    [i \in 1..Len(chars) |-> IF chars[i] = old THEN new ELSE chars[i]]

\* os.path.join(CACHE_DIR, f"{symbol.replace('.', '_')}.pkl")
get_cache_filename(sym) == <<"cache", replace(Chars(sym), ".", "_"), ".pkl">>

CacheFiles == {get_cache_filename(s) : s \in CacheSymbols}

NoFile == [file |-> "absent", timestamp |-> 0, form |-> "-", data |-> NoData,
           symbol |-> None]

\* open(cache_file, 'wb') followed by pickle.dump; pickled = FALSE is a dump
\* that raised after the file was truncated
\* a 4-tuple is stored as its history, info and minimal_data with the symbol:
\* the stock object is left out; any other value is stored whole
save_to_cache(files, sym, data, now, pickled) ==
    LET form == IF data.shape = "tuple4" THEN "stock" ELSE "data"
        cache_data == IF form = "stock" THEN [data EXCEPT !.ticker = None] ELSE data
        written == [file |-> "ok", timestamp |-> now, form |-> form,
                    data |-> cache_data, symbol |-> sym]
        broken == [file |-> "corrupt", timestamp |-> 0, form |-> "-", data |-> NoData,
                   symbol |-> sym]
    IN [files EXCEPT ![get_cache_filename(sym)] = IF pickled THEN written ELSE broken]

\* a 4-tuple is always picklable (dicts only); a tuple holding a yf.Ticker may not be
CanPickle(data) == IF data.shape = "tuple4" THEN {TRUE} ELSE BOOLEAN

reconstruct_NoStock(f, sym) == f.data

\* the value a valid file yields: for stock data the tuple
\* (MockStock(symbol, info), hist_data, info, minimal_data) built from the
\* stored parts around the symbol asked for, else cache_data.get('data')
reconstruct(f, sym) ==
    IF f.form = "stock"
    THEN [shape |-> "tuple4", tier |-> f.data.tier, price |-> f.data.price,
          open |-> f.data.open, bars |-> f.data.bars, is_real |-> f.data.is_real,
          ticker |-> sym]
    ELSE f.data

load_from_cache_Inclusive(files, sym, now) ==
    LET f == files[get_cache_filename(sym)]
    IN IF f.file = "ok" /\ now - f.timestamp <= CACHE_DURATION
       THEN reconstruct(f, sym) ELSE NoData

load_from_cache(files, sym, now) ==
    LET f == files[get_cache_filename(sym)]
    IN IF f.file = "ok"
       THEN IF now - f.timestamp < CACHE_DURATION
            THEN reconstruct(f, sym)
            ELSE NoData
       ELSE NoData

\* Python truthiness of what load_from_cache returned
Truthy(data) == data.shape # None

----------------------------------------------------------------------------
(* rate_limit_yahoo_finance: returns the new dicts, the time at return and *)
(* whether the call slept                                                  *)

\* the reset of the window forgets to zero the counter
rate_limit_yahoo_finance_KeepsCount(lrt, rc, now) ==
    LET reset == "yahoo" \notin DOMAIN lrt \/ now - lrt["yahoo"] > RATE_WINDOW
        lrt1 == IF reset THEN DictSet(lrt, "yahoo", now) ELSE lrt
        over == DictGet(rc, "yahoo", 0) >= RATE_MAX
        wait_time == RATE_WINDOW - (now - lrt1["yahoo"])
        sleeps == over /\ wait_time > 0
        now2 == IF sleeps THEN now + wait_time ELSE now
        rc2 == IF sleeps THEN DictSet(rc, "yahoo", 0) ELSE rc
        lrt2 == IF sleeps THEN DictSet(lrt1, "yahoo", now2) ELSE lrt1
    IN [lrt |-> lrt2,
        rc |-> DictSet(rc2, "yahoo", DictGet(rc2, "yahoo", 0) + 1),
        now |-> now2,
        reset |-> reset,
        slept |-> sleeps]

rate_limit_yahoo_finance(lrt, rc, now) ==
    LET reset == "yahoo" \notin DOMAIN lrt \/ now - lrt["yahoo"] > RATE_WINDOW
        rc1 == IF reset THEN DictSet(rc, "yahoo", 0) ELSE rc
        lrt1 == IF reset THEN DictSet(lrt, "yahoo", now) ELSE lrt
        over == DictGet(rc1, "yahoo", 0) >= RATE_MAX
        wait_time == RATE_WINDOW - (now - lrt1["yahoo"])
        sleeps == over /\ wait_time > 0
        now2 == IF sleeps THEN now + wait_time ELSE now
        rc2 == IF sleeps THEN DictSet(rc1, "yahoo", 0) ELSE rc1
        lrt2 == IF sleeps THEN DictSet(lrt1, "yahoo", now2) ELSE lrt1
    IN [lrt |-> lrt2,
        rc |-> DictSet(rc2, "yahoo", DictGet(rc2, "yahoo", 0) + 1),
        now |-> now2,
        reset |-> reset,
        slept |-> sleeps]

NoCall == [at |-> -1, had_window |-> FALSE, elapsed |-> 0, count_before |-> 0,
           slept |-> FALSE, count_after |-> 0]

\* what one call of the limiter looked like from outside
Observe(lrt, rc, now, r) ==
    [at |-> now,
     had_window |-> "yahoo" \in DOMAIN lrt,
     elapsed |-> IF "yahoo" \in DOMAIN lrt THEN now - lrt["yahoo"] ELSE 0,
     count_before |-> DictGet(rc, "yahoo", 0),
     slept |-> r.slept,
     count_after |-> r.rc["yahoo"]]

----------------------------------------------------------------------------
(* Recommendation scorer of app.py.  Averages are kept as fractions        *)
(* num/den so that comparisons are exact; NaN compares false with          *)
(* everything, as in Python.                                               *)

NaN == [num |-> 0, den |-> 0]

RECURSIVE SumLast(_, _)
SumLast(s, n) == IF n = 0 THEN 0 ELSE s[Len(s)] + SumLast(SubSeq(s, 1, Len(s) - 1), n - 1)

\* stock_data['Close'].rolling(window=w).mean().iloc[-1]
rolling_mean_last(close, w) ==
    IF Len(close) < w THEN NaN ELSE [num |-> SumLast(close, w), den |-> w]

Num(x) == [num |-> x, den |-> 1]

\* a > b on floats
Gt(a, b) == IF a = NaN \/ b = NaN THEN FALSE ELSE a.num * b.den > b.num * a.den

SMA_SHORT == 20
SMA_LONG == 50

NoPrediction == [type |-> "None", has_key |-> FALSE, pct |-> 0]

\* bool(prediction_info)
PredTruthy(p) == p.type # "None"

\* prediction_info['predicted_change_percent'] raises KeyError on a dict without
\* the key and TypeError on a tuple
PredRaises(p) == p.type = "tuple" \/ (p.type = "dict" /\ ~p.has_key)

ErrorRecommendation_Empty ==
    [recommendation |-> "HOLD", confidence |-> "Medium", score |-> 0,
     color |-> "secondary", raised |-> TRUE, signals |-> <<>>]

\* except Exception as e: the neutral result, its one signal is f'Error: {e}'
ErrorRecommendation ==
    [recommendation |-> "HOLD", confidence |-> "Low", score |-> 0,
     color |-> "secondary", raised |-> TRUE, signals |-> <<"Error">>]

\* RSI Analysis
rsi_points(rsi) == IF rsi < 30 THEN 2 ELSE IF rsi > 70 THEN -2 ELSE 0

macd_points_ZeroBullish(macd) == IF macd >= 0 THEN 1 ELSE -1

macd_points_ZeroNeutral(macd) == IF macd > 0 THEN 1 ELSE IF macd < 0 THEN -1 ELSE 0

\* MACD Analysis
macd_points(macd) == IF macd > 0 THEN 1 ELSE -1

\* Moving Average Analysis
price_sma_points(close, current_price) ==
    IF Gt(Num(current_price), rolling_mean_last(close, SMA_SHORT)) THEN 1 ELSE -1

sma_cross_points(close) ==
    IF Gt(rolling_mean_last(close, SMA_SHORT), rolling_mean_last(close, SMA_LONG))
    THEN 1 ELSE -1

\* Prediction Analysis
prediction_points(prediction_info) ==
    IF PredTruthy(prediction_info) /\ prediction_info.pct > 5 THEN 2
    ELSE IF PredTruthy(prediction_info) /\ prediction_info.pct < -5 THEN -2
    ELSE 0

\* Generate recommendation: label, confidence, color
score_label(score) ==
    IF score >= 3 THEN <<"STRONG BUY", "High", "success">>
    ELSE IF score >= 1 THEN <<"BUY", "Medium", "info">>
    ELSE IF score <= -3 THEN <<"STRONG SELL", "High", "danger">>
    ELSE IF score <= -1 THEN <<"SELL", "Medium", "warning">>
    ELSE <<"HOLD", "Medium", "secondary">>

generate_trading_recommendation_CountsCalls(stock_data, prediction_info, current_price, rsi, macd) ==
    [ErrorRecommendation EXCEPT !.score = DictGet(request_count, "yahoo", 0)]

\* signals.append(...) of the four trend steps, one text each
trend_signals(stock_data, current_price, rsi, macd) ==
    << IF rsi < 30 THEN "RSI oversold" ELSE IF rsi > 70 THEN "RSI overbought"
       ELSE "RSI neutral",
       IF macd_points(macd) = 1 THEN "MACD above zero" ELSE "MACD below zero",
       IF price_sma_points(stock_data.Close, current_price) = 1
       THEN "Price above 20-day SMA" ELSE "Price below 20-day SMA",
       IF sma_cross_points(stock_data.Close) = 1
       THEN "20-day SMA above 50-day SMA" ELSE "20-day SMA below 50-day SMA" >>

\* signals.append(...) of the prediction step: only a strong prediction speaks
prediction_signals(prediction_info) ==
    IF prediction_points(prediction_info) = 2 THEN <<"AI prediction upward">>
    ELSE IF prediction_points(prediction_info) = -2 THEN <<"AI prediction downward">>
    ELSE <<>>

generate_trading_recommendation(stock_data, prediction_info, current_price, rsi, macd) ==
    LET noFrame == stock_data.type = "None" \/ Len(stock_data.Close) = 0
        score == rsi_points(rsi) + macd_points(macd)
                 + price_sma_points(stock_data.Close, current_price)
                 + sma_cross_points(stock_data.Close)
                 + prediction_points(prediction_info)
        label == score_label(score)
    IN IF noFrame \/ (PredTruthy(prediction_info) /\ PredRaises(prediction_info))
       THEN ErrorRecommendation
       ELSE [recommendation |-> label[1], confidence |-> label[2], score |-> score,
             color |-> label[3], raised |-> FALSE,
             signals |-> trend_signals(stock_data, current_price, rsi, macd)
                         \o prediction_signals(prediction_info)]

----------------------------------------------------------------------------
(* Recommendation scorer of advanced_stock_analyzer.py.  The score is kept *)
(* in hundredths: the volume step adds or takes 0.5 and the volatility     *)
(* step multiplies by 0.8.  The frame carries, next to Close and Volume,   *)
(* the column Std: the values of Close.rolling(window=20).std() that are   *)
(* not NaN, in order.                                                      *)

\* s.mean() of a column with its NaN dropped; NaN when nothing is left
mean_of(s) == IF Len(s) = 0 THEN NaN ELSE [num |-> SumLast(s, Len(s)), den |-> Len(s)]

\* s.iloc[-1] of a rolling column: NaN while the window is not full
last_of(s) == IF Len(s) = 0 THEN NaN ELSE Num(s[Len(s)])

\* x * 1.5
Times15(x) == [num |-> 3 * x.num, den |-> 2 * x.den]

\* Volume Analysis: current_volume > avg_volume * 1.5
volume_spike(volume) ==
    Gt(Num(volume[Len(volume)]), Times15(rolling_mean_last(volume, SMA_SHORT)))

\* Volatility Analysis: volatility > avg_volatility * 1.5
high_volatility(std) == Gt(last_of(std), Times15(mean_of(std)))

risk_level(std) ==
    IF high_volatility(std) THEN "High"
    ELSE IF Gt(last_of(std), mean_of(std)) THEN "Medium"
    ELSE "Low"

\* Generate recommendation, on hundredths
advanced_label(score100) ==
    IF score100 >= 300 THEN <<"STRONG BUY", "High">>
    ELSE IF score100 >= 100 THEN <<"BUY", "Medium">>
    ELSE IF score100 <= -300 THEN <<"STRONG SELL", "High">>
    ELSE IF score100 <= -100 THEN <<"SELL", "Medium">>
    ELSE <<"HOLD", "Medium">>

\* except Exception as e: its one signal is f'Error in analysis: {e}'
AdvancedErrorRecommendation ==
    [recommendation |-> "HOLD", confidence |-> "Low", score100 |-> 0,
     risk_level |-> "Unknown", raised |-> TRUE, signals |-> <<"Error in analysis">>]

\* the prediction step of the advanced scorer also reports a weak prediction
advanced_prediction_signals(prediction_info) ==
    IF prediction_points(prediction_info) # 0 THEN prediction_signals(prediction_info)
    ELSE IF PredTruthy(prediction_info) THEN <<"AI prediction change expected">>
    ELSE <<>>

advanced_generate_trading_recommendation(stock_data, prediction_info, current_price, rsi, macd) ==
    LET noFrame == stock_data.type = "None" \/ Len(stock_data.Close) = 0
        trend == 100 * (rsi_points(rsi) + macd_points(macd)
                        + price_sma_points(stock_data.Close, current_price)
                        + sma_cross_points(stock_data.Close))
        with_volume == IF volume_spike(stock_data.Volume)
                       THEN trend + (IF trend > 0 THEN 50 ELSE -50)
                       ELSE trend
        with_prediction == with_volume + 100 * prediction_points(prediction_info)
        score100 == IF high_volatility(stock_data.Std)
                    THEN (with_prediction * 8) \div 10
                    ELSE with_prediction
        label == advanced_label(score100)
    IN IF noFrame \/ (PredTruthy(prediction_info) /\ PredRaises(prediction_info))
       THEN AdvancedErrorRecommendation
       ELSE [recommendation |-> label[1], confidence |-> label[2],
             score100 |-> score100, risk_level |-> risk_level(stock_data.Std),
             raised |-> FALSE,
             signals |-> trend_signals(stock_data, current_price, rsi, macd)
                         \o (IF volume_spike(stock_data.Volume)
                             THEN <<"High volume activity">> ELSE <<>>)
                         \o advanced_prediction_signals(prediction_info)
                         \o (IF high_volatility(stock_data.Std)
                             THEN <<"High volatility">> ELSE <<>>)]

\* analyze_sentiment: polarity in hundredths, or TextBlob raising
analyze_sentiment(outcome) ==
    IF outcome = "raises" THEN "Neutral"
    ELSE IF outcome > 10 THEN "Positive"
    ELSE IF outcome < -10 THEN "Negative"
    ELSE "Neutral"

\* price series the market can hand to the scorer: n bars moving by slope a bar
MkSeries(n, base, slope) == [i \in 1..n |-> base + slope * i]

Frame(n, base, slope) ==
    IF n < 0 THEN [type |-> "None", Close |-> <<>>]
    ELSE [type |-> "frame", Close |-> MkSeries(n, base, slope)]

Slopes == {-1, 0, 1}

\* the frame of advanced_stock_analyzer: flat volume and flat rolling deviation
\* but for the last bar
AdvancedFrame(n, base, slope, volume_last, std_last) ==
    IF n < 0 THEN [type |-> "None", Close |-> <<>>, Volume |-> <<>>, Std |-> <<>>]
    ELSE [type |-> "frame",
          Close |-> MkSeries(n, base, slope),
          Volume |-> [i \in 1..n |-> IF i = n THEN volume_last ELSE 10],
          Std |-> IF n < SMA_SHORT THEN <<>>
                  ELSE [i \in 1..(n - SMA_SHORT + 1) |->
                           IF i = n - SMA_SHORT + 1 THEN std_last ELSE 2]]

----------------------------------------------------------------------------
(* Log of one request *)

Ev(e, w) == [ev |-> e, what |-> w]

Api(names) == [i \in 1..Len(names) |-> Ev("api", names[i])]

Has(l, e) == \E i \in 1..Len(l) : l[i] = e

Count(l, e) == Cardinality({i \in 1..Len(l) : l[i] = e})

----------------------------------------------------------------------------
(* fetch_real_current_price.  Each method of the Ticker answers <<p>>, a    *)
(* price that may be 0, or Nothing: it raised, returned None or an empty   *)
(* frame.                                                                  *)

Nothing == <<>>

InfoOutcomes == {Nothing, <<0>>} \cup {<<p>> : p \in LivePrices}
HistoryOutcomes == {Nothing} \cup {<<p>> : p \in LivePrices}
FastOutcomes == {Nothing, <<0>>} \cup {<<p>> : p \in LivePrices}

fetch_real_current_price(info, history, fast) ==
    LET p1 == info
        p2 == IF p1 = Nothing THEN history ELSE p1
        p3 == IF p2 = Nothing THEN fast ELSE p2
        calls == <<"info">> \o (IF p1 = Nothing THEN <<"history">> ELSE <<>>)
                            \o (IF p2 = Nothing THEN <<"fast_info">> ELSE <<>>)
        found == p3 # Nothing /\ p3[1] > 0
    IN [data |-> IF found
                 THEN [shape |-> "dict", tier |-> "real", price |-> p3[1], open |-> p3[1],
                       bars |-> -1, is_real |-> TRUE, ticker |-> None]
                 ELSE NoData,
        calls |-> calls]

\* create_nse_result(create_realistic_estimates(real_price_data), indian_symbol):
\* the open price is the real price times a factor close to 1
create_nse_result(nse_data, sym) ==
    [nse_data EXCEPT !.shape = "tuple4", !.bars = SyntheticBars, !.ticker = sym]

\* fast_info of get_alternative_indian_stock_data and get_minimal_stock_data
\* last_price is missing, 0, or the call raised: <<>>; else <<last_price, open>>
QuoteOutcomes == {Nothing} \cup (LivePrices \X OpenPrices)

Quote(out, tier) ==
    IF out = Nothing THEN NoData
    ELSE [shape |-> "dict", tier |-> tier, price |-> out[1], open |-> out[2],
          bars |-> -1, is_real |-> FALSE, ticker |-> None]

\* the table branch of get_enhanced_indian_demo_data
DemoTable(sym) ==
    IF PopularIndian(sym)
    THEN [shape |-> "dict", tier |-> "demo", price |-> DemoPrice(sym),
          open |-> DemoPrice(sym), bars |-> -1, is_real |-> FALSE, ticker |-> None]
    ELSE NoData

get_enhanced_indian_demo_data(sym, info, history, fast) ==
    LET real == fetch_real_current_price(info, history, fast)
    IN [data |-> IF Truthy(real.data) THEN real.data ELSE DemoTable(sym),
        calls |-> real.calls,
        real |-> Truthy(real.data)]

NoResponse == [kind |-> "none", mode |-> "-", price |-> 0, rsi |-> 0, macd |-> 0,
               recommendation |-> "-", score10 |-> 0, demo_mode |-> FALSE,
               is_real_price |-> FALSE, keys |-> {},
               recommendation_keys |-> {}, recommendation_type |-> "-",
               color |-> "-", confidence |-> "-"]

NoRead == [at |-> -1, symbol |-> None, returned |-> NoData]

\* what one call of load_from_cache looked like from outside
Read(sym, now, returned) == [at |-> now, symbol |-> sym, returned |-> returned]

\* the observation is dropped once the files it was made on are rewritten
Forget(read, files, files2) == IF files2 = files THEN read ELSE NoRead

NoRecIn == [bars |-> -1, slope |-> 0, pred |-> NoPrediction, price |-> 0, rsi |-> 0,
            macd |-> 0]

\* one entry of rec_seen; calls is the module-level counter at the time of the call
Seen(fn, in, out) ==
    [fn |-> fn, in |-> in, out |-> out, calls |-> DictGet(request_count, "yahoo", 0)]

NoRecOut == [recommendation |-> "-", confidence |-> "-", score |-> 0, color |-> "-",
             raised |-> FALSE, signals |-> <<>>]

NoMatch == [symbol |-> <<>>, name |-> <<>>]

NoSearch == [in |-> <<>>, done |-> FALSE, out |-> NoMatch]

\* a call of search_stock_symbol, as observed
Searched(user_input) ==
    [in |-> user_input, done |-> TRUE, out |-> search_stock_symbol(user_input)]

Threads == {1, 2}

\* no request thread is inside rate_limit_yahoo_finance; returns lists the
\* calls that returned: when, and whether the call slept
NoThreads ==
    [th |-> [t \in Threads |-> [pc |-> "idle", current_time |-> 0, wait_time |-> 0,
                                wake |-> 0, slept |-> FALSE]],
     returns |-> <<>>]

\* no synthetic series is being built; prices are in hundredths
NoSeries ==
    [fn |-> "-", current_price |-> 0, volume |-> 0, i |-> 0, base_price |-> 0,
     len |-> 0, last |-> 0, returned |-> "-"]

\* the process after start-up: empty module-level dicts, empty cache directory
Boot ==
    /\ clock = 0
    /\ cache = [f \in CacheFiles |-> NoFile]
    /\ last_request_time = EmptyDict
    /\ request_count = EmptyDict
    /\ rl_call = NoCall
    /\ pc = "idle"
    /\ symbol = None
    /\ real_price_data = NoData
    /\ minimal_data = NoData
    /\ attempt = 0
    /\ result = NoData
    /\ log = <<>>
    /\ response = NoResponse
    /\ cache_read = NoRead
    /\ rec_out = NoRecOut
    /\ rec_seen = {}
    /\ threads = NoThreads
    /\ series = NoSeries

Init == Boot /\ rec_in = NoRecIn /\ search_call = NoSearch

limiter == <<last_request_time, request_count, rl_call>>
scorer == <<rec_in, rec_out, rec_seen>>

\* time passes between two requests
Pass(d, limit) ==
    /\ pc = "idle"
    /\ clock + d <= limit
    /\ clock' = clock + d
    /\ UNCHANGED <<series, threads, search_call, cache, limiter, pc, symbol, real_price_data, minimal_data, attempt,
                   result, log, response, cache_read, scorer>>

Advance(d) == Pass(d, MaxClock)

\* analyze_stock_api, up to the call of get_stock_data_with_retry
Request(q) ==
    /\ pc = "idle"
    /\ clock <= MaxClock
    /\ DictGet(request_count, "yahoo", 0) < MaxCount
    /\ search_call' = Searched(q)
    /\ symbol' = Str(search_call'.out.symbol)
    /\ pc' = "load_cache"
    /\ UNCHANGED <<series, threads, clock, cache, limiter, real_price_data, minimal_data, attempt,
                   result, log, response, cache_read, scorer>>

\* the cache hit is stored but the function goes on to fetch
LoadCache_NoReturn ==
    /\ pc = "load_cache"
    /\ LET cached_data == load_from_cache(cache, symbol, clock)
       IN /\ cache_read' = Read(symbol, clock, cached_data)
          /\ result' = cached_data
          /\ log' = log \o <<Ev("consult", "cache")>>
                        \o (IF Truthy(cached_data) THEN <<Ev("yield", "cache")>> ELSE <<>>)
          /\ pc' = "fetch_real"
    /\ UNCHANGED <<series, threads, search_call, clock, cache, limiter, symbol, real_price_data, minimal_data,
                   attempt, response, scorer>>

\* get_stock_data_with_retry: cached_data = load_from_cache(symbol)
LoadCache ==
    /\ pc = "load_cache"
    /\ LET cached_data == load_from_cache(cache, symbol, clock)
       IN /\ cache_read' = Read(symbol, clock, cached_data)
          /\ IF Truthy(cached_data)
             THEN /\ result' = cached_data
                  /\ log' = log \o <<Ev("consult", "cache"), Ev("yield", "cache")>>
                  /\ pc' = "analyze"
             ELSE /\ result' = result
                  /\ log' = Append(log, Ev("consult", "cache"))
                  /\ pc' = "fetch_real"
    /\ UNCHANGED <<series, threads, search_call, clock, cache, limiter, symbol, real_price_data, minimal_data,
                   attempt, response, scorer>>

\* Strategy 2: the dict built from a real price for a stock that is not Indian
strategy2_result(enhanced_data) == [enhanced_data EXCEPT !.shape = "dict"]

\* real_price_data = fetch_real_current_price(symbol), then Strategy 1 with a
\* real price for an Indian stock, Strategy 2 with a real price for any other
FetchReal(info, history, fast) ==
    /\ pc = "fetch_real"
    /\ LET r == fetch_real_current_price(info, history, fast)
           l == log \o <<Ev("consult", "real"), Ev("attempt", "real")>> \o Api(r.calls)
       IN /\ real_price_data' = r.data
          /\ CASE IsIndian(symbol) /\ Truthy(r.data) ->
                    /\ result' = create_nse_result(r.data, symbol)
                    /\ cache' = save_to_cache(cache, symbol, result', clock, TRUE)
                    /\ log' = Append(l, Ev("yield", "real"))
                    /\ pc' = "analyze"
               [] ~IsIndian(symbol) /\ Truthy(r.data) ->
                    /\ result' = strategy2_result(r.data)
                    /\ \E pickled \in CanPickle(result') :
                           cache' = save_to_cache(cache, symbol, result', clock, pickled)
                    /\ log' = Append(l, Ev("yield", "real"))
                    /\ pc' = "analyze"
               [] OTHER ->
                    /\ result' = result
                    /\ cache' = cache
                    /\ log' = l
                    /\ pc' = IF IsIndian(symbol) THEN "fetch_alt" ELSE "minimal"
    /\ cache_read' = Forget(cache_read, cache, cache')
    /\ UNCHANGED <<series, threads, search_call, clock, limiter, symbol, minimal_data, attempt, response, scorer>>

\* Strategy 1, backup: alt_data = get_alternative_indian_stock_data(indian_symbol)
FetchAlt(out) ==
    /\ pc = "fetch_alt"
    /\ LET alt_data == Quote(out, "alt")
           l == log \o <<Ev("consult", "alt"), Ev("attempt", "alt"), Ev("api", "fast_info")>>
       IN IF Truthy(alt_data)
          THEN /\ result' = create_nse_result(alt_data, symbol)
               /\ cache' = save_to_cache(cache, symbol, result', clock, TRUE)
               /\ log' = Append(l, Ev("yield", "alt"))
               /\ pc' = "analyze"
          ELSE /\ result' = result
               /\ cache' = cache
               /\ log' = l
               /\ pc' = IF PopularIndian(symbol) THEN "demo" ELSE "minimal"
    /\ cache_read' = Forget(cache_read, cache, cache')
    /\ UNCHANGED <<series, threads, search_call, clock, limiter, symbol, real_price_data, minimal_data, attempt,
                   response, scorer>>

\* Strategy 1, last resort: demo_data = get_enhanced_indian_demo_data(symbol)
Demo(info, history, fast) ==
    /\ pc = "demo"
    /\ LET d == get_enhanced_indian_demo_data(symbol, info, history, fast)
       IN /\ result' = create_nse_result(d.data, symbol)
          /\ cache' = save_to_cache(cache, symbol, result', clock, TRUE)
          /\ log' = log \o <<Ev("consult", "demo"), Ev("consult", "real"),
                             Ev("attempt", "real")>>
                        \o Api(d.calls)
                        \o <<Ev("yield", IF d.real THEN "real" ELSE "demo")>>
          /\ pc' = "analyze"
    /\ cache_read' = Forget(cache_read, cache, cache')
    /\ UNCHANGED <<series, threads, search_call, clock, limiter, symbol, real_price_data, minimal_data, attempt,
                   response, scorer>>

\* Strategy 3: minimal_data = get_minimal_stock_data(symbol)
Minimal(out) ==
    /\ pc = "minimal"
    /\ minimal_data' = Quote(out, "minimal")
    /\ log' = log \o <<Ev("consult", "minimal"), Ev("attempt", "minimal"),
                       Ev("api", "fast_info")>>
    /\ pc' = IF Truthy(minimal_data') THEN "fetch_hist" ELSE "full"
    /\ UNCHANGED <<series, threads, search_call, clock, cache, limiter, symbol, real_price_data, attempt, result,
                   response, cache_read, scorer>>

\* bars of stock.history(period="1mo"); 0: the frame is empty or the call raised
HistOutcomes == {0} \cup YahooBars

\* Strategy 3 with minimal data: the history of one month, else mock history
FetchHist(bars) ==
    /\ pc = "fetch_hist"
    /\ LET r == rate_limit_yahoo_finance(last_request_time, request_count, clock)
       IN /\ last_request_time' = r.lrt
          /\ request_count' = r.rc
          /\ clock' = r.now
          /\ rl_call' = Observe(last_request_time, request_count, clock, r)
          /\ result' = [minimal_data EXCEPT !.shape = "tuple4", !.ticker = symbol,
                           !.bars = IF bars > 0 THEN bars ELSE SyntheticBars]
          /\ cache' = save_to_cache(cache, symbol, result', r.now, TRUE)
          /\ log' = log \o <<Ev("rate_limit", "yahoo"), Ev("attempt", "history"),
                             Ev("api", "history")>>
                        \o (IF bars > 0 THEN <<Ev("api", "info")>> ELSE <<>>)
                        \o <<Ev("yield", "minimal")>>
          /\ pc' = "analyze"
    /\ cache_read' = Forget(cache_read, cache, cache')
    /\ UNCHANGED <<series, threads, search_call, symbol, real_price_data, minimal_data, attempt, response, scorer>>

\* float(hist_data['Close'].iloc[-1]) of a history Yahoo delivered: the code
\* takes the last Close as it comes; -1 stands for a Close that is not >= 0
\* (negative, or NaN on a bar without trades)
ClosePrices == LivePrices \cup {-1}

FullOutcomes ==
    {[kind |-> k, price |-> 0, open |-> 0, bars |-> 0] :
        k \in {"empty", "exc_known", "exc_other"}}
    \cup {[kind |-> "ok", price |-> p, open |-> o, bars |-> b] :
            p \in ClosePrices, o \in OpenPrices, b \in YahooBars}

LoopBound_OneMore == max_retries + 1

\* for attempt in range(max_retries)
LoopBound == max_retries

return_fallback_mode_Saved(files, sym, now) ==
    save_to_cache(files, sym, FALLBACK_MODE, now, TRUE)

\* return "FALLBACK_MODE": the files after it, no save_to_cache precedes it
return_fallback_mode(files, sym, now) == files

\* get_stock_data_fallback_strategy: one pass of the loop body
FullAttempt(out) ==
    /\ pc = "full"
    /\ LET r == rate_limit_yahoo_finance(last_request_time, request_count, clock)
           l == log \o (IF attempt = 0 THEN <<Ev("consult", "full")>> ELSE <<>>)
                    \o <<Ev("rate_limit", "yahoo"), Ev("attempt", "full"),
                         Ev("api", "history")>>
                    \o (IF out.kind \in {"ok", "empty"} THEN <<Ev("api", "info")>> ELSE <<>>)
           last == attempt + 1 >= LoopBound
       IN /\ last_request_time' = r.lrt
          /\ request_count' = r.rc
          /\ clock' = r.now
          /\ rl_call' = Observe(last_request_time, request_count, clock, r)
          /\ CASE out.kind = "ok" ->
                    /\ result' = [shape |-> "tuple3", tier |-> "full", price |-> out.price,
                                  open |-> out.open, bars |-> out.bars, is_real |-> FALSE,
                                  ticker |-> symbol]
                    /\ \E pickled \in CanPickle(result') :
                           cache' = save_to_cache(cache, symbol, result', r.now, pickled)
                    /\ log' = Append(l, Ev("yield", "full"))
                    /\ attempt' = attempt
                    /\ pc' = "analyze"
               [] out.kind = "exc_known" \/ (out.kind \in {"empty", "exc_other"} /\ last) ->
                    /\ result' = FALLBACK_MODE
                    /\ cache' = return_fallback_mode(cache, symbol, r.now)
                    /\ log' = l
                    /\ attempt' = attempt
                    /\ pc' = "analyze"
               [] OTHER ->
                    /\ result' = result
                    /\ cache' = cache
                    /\ log' = l
                    /\ attempt' = attempt + 1
                    /\ pc' = "full"
    /\ cache_read' = Forget(cache_read, cache, cache')
    /\ UNCHANGED <<series, threads, search_call, symbol, real_price_data, minimal_data, response, scorer>>

----------------------------------------------------------------------------
(* analyze_stock_api, after get_stock_data_with_retry returned *)

RsiValues == {20, 50, 80}
Macd10Values == {-5, 0, 5}

\* 'score': 7.5 of the response, in tenths
RESPONSE_SCORE10 == 75
\* macd = 0.5 of the fallback branches, in tenths
FALLBACK_MACD10 == 5

\* top-level keys of response_data and the keys of its 'recommendation' object
ResponseKeys ==
    {"symbol", "company_name", "name", "logo_url", "current_info", "technical",
     "recommendation", "news", "chart", "fundamentals", "demo_mode",
     "gemini_analysis", "news_sentiment", "fundamentals_analysis"}
RecommendationKeys == {"recommendation", "color", "confidence", "score"}

\* the local `recommendation` as a Python value: its type and its text
PyStr(text) == [type |-> "str", text |-> text]

\* 'success' if 'Buy'/'BUY' in the text, 'danger' if 'Sell'/'SELL', else 'warning'
color(text) ==
    CASE text \in {"BUY", "STRONG BUY"} -> "success"
      [] text \in {"SELL", "STRONG SELL"} -> "danger"
      [] OTHER -> "warning"

\* response_data of a request that reached the end of the handler
response_data(mode, price, rsi, macd, recommendation, demo_mode) ==
    [kind |-> "success", mode |-> mode, price |-> price, rsi |-> rsi,
     macd |-> macd, recommendation |-> recommendation.text,
     score10 |-> RESPONSE_SCORE10, demo_mode |-> demo_mode,
     is_real_price |-> ~demo_mode, keys |-> ResponseKeys,
     recommendation_keys |-> RecommendationKeys,
     recommendation_type |-> recommendation.type,
     color |-> color(recommendation.text), confidence |-> "Medium"]

ErrorResponse == [NoResponse EXCEPT !.kind = "error"]

\* the fallback branches: get_fallback_data(symbol, matched_name)
FallbackResponse(sym) ==
    LET mock_data == MockEntry(sym)
    IN response_data("fallback", mock_data.price, RSI_DEFAULT, FALLBACK_MACD10,
                     PyStr(mock_data.recommendation), TRUE)

\* prediction_info handed to the scorer in the two live branches
MinimalModePrediction == [type |-> "dict", has_key |-> FALSE, pct |-> 0]
FullModePrediction == [type |-> "tuple", has_key |-> FALSE, pct |-> 0]

\* len(hist_data) >= 14 guards calculate_rsi and calculate_macd
EnoughBars(bars) == bars >= RSI_WINDOW

\* the value the handler keeps of the scorer's result: the scorer returns a
\* dict on both of its paths, so the isinstance branch takes its
\* 'recommendation' entry
extract_recommendation_Whole(recommendation_data) ==
    [type |-> "dict", text |-> recommendation_data.recommendation]

extract_recommendation(recommendation_data) ==
    PyStr(recommendation_data.recommendation)

\* the minimal-data and full-data branches; rsi_calc and macd_calc are the last
\* values of calculate_rsi and calculate_macd on this history. The full-data
\* branch divides by float(Open), which raises on 0; the minimal-data branch
\* divides by the value fast_info gave: a Python number raises on 0
\* (py_number), a numpy float yields inf and the request goes on. chart_ok
\* tells whether create_plotly_chart returned; when it raises, the bare
\* except of the branch supplies the text
LiveResponse(res, mode, rsi_calc, macd_calc, slope, py_number, chart_ok) ==
    LET rsi == IF EnoughBars(res.bars) THEN rsi_calc ELSE RSI_DEFAULT
        macd == IF EnoughBars(res.bars) THEN macd_calc ELSE MACD_DEFAULT
        prediction_info == IF mode = "minimal" THEN MinimalModePrediction
                           ELSE FullModePrediction
        recommendation_data ==
            generate_trading_recommendation(Frame(res.bars, res.price, slope),
                                            prediction_info, res.price, rsi, macd)
        recommendation == IF chart_ok THEN extract_recommendation(recommendation_data)
                          ELSE PyStr("Hold - Analysis incomplete")
    IN IF res.open = 0 /\ (mode = "full" \/ py_number)
       THEN ErrorResponse      \* change / open_price: ZeroDivisionError
       ELSE response_data(mode, res.price, rsi, macd, recommendation, FALSE)

Analyze(rsi_calc, macd_calc, slope, py_number, chart_ok) ==
    /\ pc = "analyze"
    /\ CASE result.shape \in {"FALLBACK_MODE", None} ->
              /\ response' = FallbackResponse(symbol)
              /\ log' = log \o <<Ev("consult", "mock"), Ev("yield", "mock")>>
         [] result.shape = "tuple4" ->
              /\ response' = LiveResponse(result, "minimal", rsi_calc, macd_calc, slope,
                                           py_number, chart_ok)
              /\ log' = log
         [] result.shape = "tuple3" ->
              /\ response' = LiveResponse(result, "full", rsi_calc, macd_calc, slope,
                                           py_number, chart_ok)
              /\ log' = log
         [] OTHER ->
              /\ response' = [FallbackResponse(symbol) EXCEPT !.mode = "forced"]
              /\ log' = log \o <<Ev("consult", "mock"), Ev("yield", "mock")>>
    /\ pc' = "done"
    /\ UNCHANGED <<series, threads, search_call, clock, cache, limiter, symbol, real_price_data, minimal_data, attempt,
                   result, cache_read, scorer>>

\* return jsonify(...): the locals of the request are gone
Respond ==
    /\ pc = "done"
    /\ pc' = "idle"
    /\ symbol' = None
    /\ real_price_data' = NoData
    /\ minimal_data' = NoData
    /\ attempt' = 0
    /\ result' = NoData
    /\ log' = <<>>
    /\ response' = NoResponse
    /\ rl_call' = NoCall
    /\ cache_read' = NoRead
    /\ search_call' = NoSearch
    /\ UNCHANGED <<series, threads, clock, cache, last_request_time, request_count, scorer>>

Next ==
    \/ \E d \in TimeSteps : Advance(d)
    \/ \E q \in Queries : Request(q)
    \/ LoadCache
    \/ \E i \in InfoOutcomes, h \in HistoryOutcomes, f \in FastOutcomes : FetchReal(i, h, f)
    \/ \E out \in QuoteOutcomes : FetchAlt(out)
    \/ \E i \in InfoOutcomes, h \in HistoryOutcomes, f \in FastOutcomes : Demo(i, h, f)
    \/ \E out \in QuoteOutcomes : Minimal(out)
    \/ \E bars \in HistOutcomes : FetchHist(bars)
    \/ \E out \in FullOutcomes : FullAttempt(out)
    \/ \E r \in RsiValues, m \in Macd10Values, sl \in Slopes, py \in BOOLEAN,
          ok \in BOOLEAN : Analyze(r, m, sl, py, ok)
    \/ Respond

Spec == Init /\ [][Next]_vars

----------------------------------------------------------------------------
(* The rate limiter on its own: calls at any times *)

MaxLimiterClock == 125
MaxCalls == 7
LimiterSteps == {29, 30, 31}

Elapse(d) == Pass(d, MaxLimiterClock)

RateLimitCall ==
    /\ pc = "idle"
    /\ clock <= MaxLimiterClock
    /\ DictGet(request_count, "yahoo", 0) < MaxCalls
    /\ LET r == rate_limit_yahoo_finance(last_request_time, request_count, clock)
       IN /\ last_request_time' = r.lrt
          /\ request_count' = r.rc
          /\ clock' = r.now
          /\ rl_call' = Observe(last_request_time, request_count, clock, r)
    /\ UNCHANGED <<series, threads, search_call, cache, pc, symbol, real_price_data, minimal_data, attempt, result, log,
                   response, cache_read, scorer>>

NextLimiter ==
    \/ \E d \in LimiterSteps : Elapse(d)
    \/ RateLimitCall

SpecLimiter == Init /\ [][NextLimiter]_vars

----------------------------------------------------------------------------
(* The cache on its own: save_to_cache and load_from_cache at any times *)

MaxCacheClock == 450
CacheSteps == {149, 150}

\* results of get_stock_data_with_retry that reach save_to_cache
SavedResults ==
    {[shape |-> "tuple4", tier |-> "real", price |-> p, open |-> p, bars |-> SyntheticBars,
      is_real |-> TRUE, ticker |-> None] : p \in LivePrices}
    \cup {[shape |-> "tuple3", tier |-> "full", price |-> p, open |-> p, bars |-> b,
           is_real |-> FALSE, ticker |-> None] : p \in LivePrices, b \in YahooBars}

Wait(d) == Pass(d, MaxCacheClock)

SaveCall(sym, data) ==
    /\ pc = "idle"
    /\ \E pickled \in CanPickle(data) :
           cache' = save_to_cache(cache, sym, [data EXCEPT !.ticker = sym], clock,
                                  pickled)
    /\ cache_read' = Forget(cache_read, cache, cache')
    /\ UNCHANGED <<series, threads, search_call, clock, limiter, pc, symbol, real_price_data, minimal_data, attempt,
                   result, log, response, scorer>>

LoadCall(sym) ==
    /\ pc = "idle"
    /\ cache_read' = Read(sym, clock, load_from_cache(cache, sym, clock))
    /\ UNCHANGED <<series, threads, search_call, clock, cache, limiter, pc, symbol, real_price_data, minimal_data,
                   attempt, result, log, response, scorer>>

NextCache ==
    \/ \E d \in CacheSteps : Wait(d)
    \/ \E sym \in CacheSymbols, data \in SavedResults : SaveCall(sym, data)
    \/ \E sym \in CacheSymbols : LoadCall(sym)

SpecCache == Init /\ [][NextCache]_vars

----------------------------------------------------------------------------
(* The scorer on its own: any arguments *)

ScoreBars == {-1, 0, 10, 30, 60}
ScoreBase == 100
CurrentPrices == {50, 100, 151, 200}
ScoreRsi == {20, 30, 50, 70, 80}
Predictions ==
    {NoPrediction, MinimalModePrediction, FullModePrediction}
    \cup {[type |-> "dict", has_key |-> TRUE, pct |-> c] : c \in {-6, -5, 0, 5, 6}}

ScoreInputs ==
    [bars : ScoreBars, slope : Slopes, pred : Predictions, price : CurrentPrices,
     rsi : ScoreRsi, macd : Macd10Values]

InitScore == Boot /\ rec_in \in ScoreInputs /\ search_call = NoSearch

Recommend ==
    /\ rec_out = NoRecOut
    /\ rec_out' = generate_trading_recommendation(
                       Frame(rec_in.bars, ScoreBase, rec_in.slope),
                       rec_in.pred, rec_in.price, rec_in.rsi, rec_in.macd)
    /\ rec_seen' = rec_seen \cup {Seen("app", rec_in, rec_out')}
    /\ UNCHANGED <<series, threads, search_call, clock, cache, limiter, pc, symbol, real_price_data, minimal_data,
                   attempt, result, log, response, cache_read, rec_in>>

NextScore == Recommend

SpecScore == InitScore /\ [][NextScore]_vars

----------------------------------------------------------------------------
(* Both scorers called again and again, with calls of the rate limiter    *)
(* (the module's mutable state) in between                                 *)

MaxSeen == 3

RepeatInputs ==
    [bars : {60}, slope : {1}, pred : {NoPrediction}, price : {151}, rsi : {20, 80},
     macd : {5}]

AdvancedInputs ==
    [bars : {60}, slope : {1}, pred : {NoPrediction}, price : {151}, rsi : {20},
     macd : {5}, volume_last : {20}, std_last : {2, 4}]

Score(in) ==
    /\ pc = "idle"
    /\ Cardinality(rec_seen) < MaxSeen
    /\ rec_in' = in
    /\ rec_out' = generate_trading_recommendation(
                       Frame(in.bars, ScoreBase, in.slope), in.pred, in.price, in.rsi,
                       in.macd)
    /\ rec_seen' = rec_seen \cup {Seen("app", in, rec_out')}
    /\ UNCHANGED <<series, threads, search_call, clock, cache, limiter, pc, symbol, real_price_data, minimal_data,
                   attempt, result, log, response, cache_read>>

ScoreAdvanced(in) ==
    /\ pc = "idle"
    /\ Cardinality(rec_seen) < MaxSeen
    /\ rec_in' = in
    /\ rec_out' = advanced_generate_trading_recommendation(
                       AdvancedFrame(in.bars, ScoreBase, in.slope, in.volume_last,
                                     in.std_last),
                       in.pred, in.price, in.rsi, in.macd)
    /\ rec_seen' = rec_seen \cup {Seen("advanced", in, rec_out')}
    /\ UNCHANGED <<series, threads, search_call, clock, cache, limiter, pc, symbol, real_price_data, minimal_data,
                   attempt, result, log, response, cache_read>>

NextRepeat ==
    \/ \E in \in RepeatInputs : Score(in)
    \/ \E in \in AdvancedInputs : ScoreAdvanced(in)
    \/ RateLimitCall

SpecRepeat == Init /\ [][NextRepeat]_vars

----------------------------------------------------------------------------
(* search_stock_symbol on its own: any input over a few characters, and    *)
(* some inputs of the tests                                                *)

MaxInputLen == 3

SearchAlphabet == {"t", "c", "s", "i", "T", " "}

NamedInputs ==
    { <<"h", "d", "f", "c">>,
      <<"H", "D", "F", "C", " ", "B", "a", "n", "k">>,
      <<"t", "a", "t", "a">>,
      <<"w", "i", "p", "r", "o", " ", "l", "t", "d">>,
      <<"w", "i", "p", "r", "a">>,
      <<"h", "d", "c", "f">>,
      <<"m", ".", "m">>,
      <<"m", "_", "m">>,
      <<"z", "z", ".", "n", "s">>,
      <<"Z", "z", ".", "B", "O", " ">>,
      <<"z", "z">> }

SearchInputs ==
    NamedInputs \cup UNION {[1..n -> SearchAlphabet] : n \in 0..MaxInputLen}

InitSearch ==
    /\ Boot
    /\ rec_in = NoRecIn
    /\ search_call \in {[NoSearch EXCEPT !.in = x] : x \in SearchInputs}

Search ==
    /\ ~search_call.done
    /\ search_call' = Searched(search_call.in)
    /\ UNCHANGED <<series, threads, clock, cache, limiter, pc, symbol, real_price_data,
                   minimal_data, attempt, result, log, response, cache_read, scorer>>

NextSearch == Search

SpecSearch == InitSearch /\ [][NextSearch]_vars

----------------------------------------------------------------------------
(* Properties *)

Rank(t) == CHOOSE i \in 1..Len(Tiers) : Tiers[i] = t

Positions(e) == {i \in 1..Len(log) : log[i].ev = e}

YieldTiers == {log[i].what : i \in Positions("yield")}

\* the demo table only holds the five popular symbols
Applicable(t, sym) == t = "demo" => PopularIndian(sym)

\* C1: within one request the tiers cache, real price fetch, alternate source,
\* demo data, (minimal fetch, full fetch,) mock table are first consulted in
\* that order; a tier is consulted only after every higher tier that holds
\* data for the symbol was consulted and none of them yielded; nothing is
\* consulted or fetched after a tier yielded (so a cache hit fetches nothing);
\* and the result is the data of the one tier that yielded.
C1_TieredFallback ==
    /\ \A i \in Positions("yield") : \A j \in 1..Len(log) :
           j > i => log[j].ev = "yield"
    /\ \A j \in Positions("consult") :
           \A t \in {Tiers[k] : k \in 1..(Rank(log[j].what) - 1)} :
               Applicable(t, symbol) =>
                   \E i \in 1..(j - 1) : log[i] = Ev("consult", t)
    /\ Has(log, Ev("yield", "cache")) =>
           /\ Positions("api") = {} /\ Positions("attempt") = {}
           /\ Positions("consult") = {1}
           /\ result = cache_read.returned
    /\ pc \in {"analyze", "done"} /\ result.shape # "FALLBACK_MODE" =>
           \E t \in YieldTiers : YieldTiers = {t} /\ (t = "cache" \/ result.tier = t)
    /\ pc = "analyze" /\ result.shape = "FALLBACK_MODE" => YieldTiers = {}
    /\ pc = "done" /\ result.shape = "FALLBACK_MODE" =>
           YieldTiers = {"mock"} /\ response.price = MockEntry(symbol).price

\* every tier failed and the mock table answered
C1_Witness ==
    /\ pc = "done"
    /\ \A k \in 1..Len(Tiers) :
           Applicable(Tiers[k], symbol) => Has(log, Ev("consult", Tiers[k]))
    /\ YieldTiers = {"mock"}

\* C2: load_from_cache returns the saved data (a 4-tuple around a new stock
\* object for the symbol asked for) exactly while the file is readable and
\* fewer than CACHE_DURATION seconds old, and None otherwise.
C2_CacheValidity ==
    cache_read.at >= 0 =>
        LET f == cache[get_cache_filename(cache_read.symbol)]
        IN IF f.file = "ok" /\ cache_read.at - f.timestamp < CACHE_DURATION
           THEN /\ cache_read.returned =
                       (IF f.form = "stock"
                        THEN [f.data EXCEPT !.ticker = cache_read.symbol] ELSE f.data)
                /\ Truthy(cache_read.returned)
           ELSE cache_read.returned = NoData

\* a readable entry that is exactly CACHE_DURATION seconds old
C2_Witness ==
    /\ cache_read.at >= 0
    /\ LET f == cache[get_cache_filename(cache_read.symbol)]
       IN f.file = "ok" /\ cache_read.at - f.timestamp = CACHE_DURATION
    /\ cache_read.returned = NoData

\* C3: when the scorer does not raise, its score is the sum of the five deltas.
C3_ScoreIsSumOfDeltas ==
    LET close == Frame(rec_in.bars, ScoreBase, rec_in.slope).Close
        sma20 == rolling_mean_last(close, 20)
        sma50 == rolling_mean_last(close, 50)
        dRsi == IF rec_in.rsi < 30 THEN 2 ELSE IF rec_in.rsi > 70 THEN -2 ELSE 0
        dMacd == IF rec_in.macd > 0 THEN 1 ELSE -1
        dPrice == IF Gt(Num(rec_in.price), sma20) THEN 1 ELSE -1
        dCross == IF Gt(sma20, sma50) THEN 1 ELSE -1
        dPred == IF rec_in.pred.type = "dict" /\ rec_in.pred.pct > 5 THEN 2
                 ELSE IF rec_in.pred.type = "dict" /\ rec_in.pred.pct < -5 THEN -2
                 ELSE 0
    IN rec_out # NoRecOut /\ ~rec_out.raised =>
           rec_out.score = dRsi + dMacd + dPrice + dCross + dPred

\* every delta at its largest
C3_Witness == rec_out # NoRecOut /\ ~rec_out.raised /\ rec_out.score = 7

\* the ranges of C4, on a score in tenths
C4_Bucket(score10) ==
    IF score10 >= 30 THEN "STRONG BUY"
    ELSE IF score10 >= 10 THEN "BUY"
    ELSE IF score10 <= -30 THEN "STRONG SELL"
    ELSE IF score10 <= -10 THEN "SELL"
    ELSE "HOLD"

\* C4: the label the analyze endpoint reports is the bucket of the score it
\* reports.
C4_LabelFromScore ==
    pc = "done" /\ response.kind = "success" =>
        response.recommendation = C4_Bucket(response.score10)

\* C5: the per-window counter never exceeds RATE_MAX.
C5_AtMostFive == DictGet(request_count, "yahoo", 0) <= RATE_MAX

\* C6: a call made when no window exists, or more than RATE_WINDOW seconds
\* after the window started, starts a new window at the time of the call,
\* does not sleep and leaves the counter at 1.
C6_WindowReset ==
    rl_call.at >= 0 /\ (~rl_call.had_window \/ rl_call.elapsed > RATE_WINDOW) =>
        /\ ~rl_call.slept
        /\ rl_call.count_after = 1
        /\ last_request_time["yahoo"] = rl_call.at

\* a full window that is over when the next call comes
C6_Witness ==
    /\ rl_call.at >= 0
    /\ rl_call.had_window
    /\ rl_call.elapsed > RATE_WINDOW
    /\ rl_call.count_before >= RATE_MAX

\* C7: every request to the market-data API is preceded, in the same request,
\* by a call of rate_limit_yahoo_finance.
C7_ApiGuarded ==
    \A i \in Positions("api") : \E j \in 1..(i - 1) : log[j].ev = "rate_limit"

Attempts(source) == Count(log, Ev("attempt", source))

C9_NeverError == pc = "done" => response.kind = "success"

\* C10: with fewer than 14 bars of history the analysis completes and reports
\* RSI = 50 and MACD = 0.
C10_NeutralDefaults ==
    pc = "done" /\ result.shape \in {"tuple4", "tuple3"} /\ result.bars < RSI_WINDOW =>
        /\ response.kind = "success"
        /\ response.rsi = RSI_DEFAULT
        /\ response.macd = MACD_DEFAULT

C12_RealFlagHonest ==
    pc = "done" /\ response.kind = "success" /\ response.is_real_price =>
        result.shape \in {"tuple4", "tuple3"} /\ result.tier # "demo"

\* C13: load_from_cache(A) returns only data that save_to_cache(A, ...) wrote.
C13_KeyedBySymbol ==
    cache_read.at >= 0 /\ Truthy(cache_read.returned) =>
        cache[get_cache_filename(cache_read.symbol)].symbol = cache_read.symbol

\* C14: the price in the result of get_stock_data_with_retry and the price in
\* the response of analyze_stock_api are never below zero.
C14_NonNegativePrice ==
    /\ pc \in {"analyze", "done"} /\ result.shape \in {"tuple4", "tuple3"} =>
           result.price >= 0
    /\ pc = "done" /\ response.kind = "success" => response.price >= 0

C16_RecommendationObject ==
    pc = "done" /\ response.kind = "success" =>
        /\ "recommendation" \in response.keys
        /\ response.recommendation_keys =
               {"recommendation", "color", "confidence", "score"}
        /\ response.recommendation_type = "str"

\* a live request answered with the label the scorer's result carried
C16_Witness ==
    /\ pc = "done" /\ response.kind = "success"
    /\ response.mode \in {"minimal", "full"}
    /\ response.recommendation = "HOLD"
    /\ response.recommendation_type = "str"

\* C17: a successful analysis response (HTTP 200, analysis produced) carries
\* a 'success' entry, so that a client can tell it from a failure response
C17_SuccessField ==
    pc = "done" /\ response.kind = "success" => "success" \in response.keys

\* C18: in the minimal-data and full-data modes the call to
\* generate_trading_recommendation completes its normal path, so the label
\* of the response is the bucket of the RSI/MACD/moving-average score
C18_LiveNormalPath ==
    pc = "done" /\ response.kind = "success" /\ response.mode \in {"minimal", "full"} =>
        \A sl \in Slopes :
            LET prediction_info == IF response.mode = "minimal"
                                   THEN MinimalModePrediction
                                   ELSE FullModePrediction
                recommendation_data ==
                    generate_trading_recommendation(
                        Frame(result.bars, result.price, sl), prediction_info,
                        result.price, response.rsi, response.macd)
            IN /\ ~recommendation_data.raised
               /\ response.recommendation \in {"STRONG BUY", "BUY", "SELL", "STRONG SELL"}

\* C19: in app.py's scorer, whenever no exception occurs the score is an odd
\* integer between -7 and 7, so it is never 0, and the label HOLD is
\* produced only by the exception path
C19_OddScore ==
    rec_out # NoRecOut =>
        /\ ~rec_out.raised =>
               /\ rec_out.score \in -7..7
               /\ rec_out.score % 2 = 1
               /\ rec_out.score # 0
        /\ rec_out.recommendation = "HOLD" => rec_out.raised

\* a call on the normal path whose deltas nearly cancel: neutral RSI, no
\* prediction delta, three deltas of one sign against one
C19_Witness ==
    /\ rec_out # NoRecOut /\ ~rec_out.raised
    /\ rec_in.rsi = 50 /\ rec_in.macd = 0
    /\ rec_out.score = -1 /\ rec_out.recommendation = "SELL"

\* C20: every value returned by get_stock_data_with_retry is 'FALLBACK_MODE',
\* a 4-tuple or a 3-tuple, the shapes analyze_stock_api handles without
\* forcing fallback; so whenever a real price was fetched for the request,
\* the price of the response is that real price and not a mock value
C20_HandledShapes ==
    /\ pc \in {"analyze", "done"} =>
           result.shape \in {"FALLBACK_MODE", "tuple4", "tuple3"}
    /\ pc = "done" /\ response.kind = "success" => response.mode # "forced"
    /\ pc = "done" /\ response.kind = "success" /\ Truthy(real_price_data) =>
           /\ response.mode = "minimal"
           /\ response.price = real_price_data.price
           /\ ~response.demo_mode

\* a request whose first fetch gave a real price, answered with that price
C20_Witness ==
    /\ pc = "done" /\ response.kind = "success"
    /\ Truthy(real_price_data) /\ real_price_data.price = 110
    /\ result.shape = "tuple4" /\ response.price = 110

----------------------------------------------------------------------------
(* get_stock_data_fallback_strategy on its own: called for any symbol, at  *)
(* any time.  The loop body always runs to its end (each fetch returns or   *)
(* raises, each sleep is finite), which is the fairness of SpecFallback.    *)

\* fallback_result = get_stock_data_fallback_strategy(symbol)
CallFallback(sym) ==
    /\ pc = "idle"
    /\ clock <= MaxClock
    /\ DictGet(request_count, "yahoo", 0) < MaxCount
    /\ symbol' = sym
    /\ pc' = "full"
    /\ UNCHANGED <<series, threads, search_call, clock, cache, limiter, real_price_data, minimal_data,
                   attempt, result, log, response, cache_read, scorer>>

\* the caller takes the value; the locals of the call are gone
FallbackReturn ==
    /\ pc = "analyze"
    /\ pc' = "idle"
    /\ symbol' = None
    /\ attempt' = 0
    /\ result' = NoData
    /\ log' = <<>>
    /\ rl_call' = NoCall
    /\ cache_read' = NoRead
    /\ UNCHANGED <<series, threads, search_call, clock, cache, last_request_time, request_count,
                   real_price_data, minimal_data, response, scorer>>

NextFallback ==
    \/ \E d \in TimeSteps : Advance(d)
    \/ \E sym \in Symbols : CallFallback(sym)
    \/ \E out \in FullOutcomes : FullAttempt(out)
    \/ FallbackReturn

SpecFallback ==
    Init /\ [][NextFallback]_vars /\ WF_vars(\E out \in FullOutcomes : FullAttempt(out))

\* C21: get_stock_data_fallback_strategy always terminates and never raises:
\* at most max_retries fetch attempts; a 3-tuple as soon as an attempt yields
\* a non-empty history; 'FALLBACK_MODE' at once on an exception with a known
\* Yahoo failure indicator; 'FALLBACK_MODE' after the last attempt otherwise
C21_FallbackTerminates ==
    /\ [](pc \in {"full", "analyze"} =>
              /\ Attempts("full") <= max_retries
              /\ Attempts("full") = (IF pc = "full" THEN attempt ELSE attempt + 1))
    /\ [](pc = "analyze" => result.shape \in {"tuple3", "FALLBACK_MODE"})
    /\ [][\A out \in FullOutcomes : FullAttempt(out) =>
              /\ out.kind = "ok" => pc' = "analyze" /\ result'.shape = "tuple3"
              /\ out.kind = "exc_known" => pc' = "analyze" /\ result' = FALLBACK_MODE
              /\ out.kind \in {"empty", "exc_other"} =>
                     IF Attempts("full") + 1 = max_retries
                     THEN pc' = "analyze" /\ result' = FALLBACK_MODE
                     ELSE pc' = "full"]_vars
    /\ (pc = "full") ~> (pc = "analyze")

\* the second attempt failed without a known indicator and ended the call
C21_Witness ==
    /\ pc = "analyze" /\ result = FALLBACK_MODE
    /\ Attempts("full") = max_retries
    /\ ~Has(log, Ev("consult", "real"))

----------------------------------------------------------------------------
(* The two copies of the scorer on the same arguments: the frame has Close *)
(* and Volume for both, app.py's copy reads Close alone.                    *)

BothBars == {-1, 0, 30, 60}
BothInputs ==
    [bars : BothBars, slope : Slopes, pred : Predictions, price : {50, 151},
     rsi : {20, 50, 80}, macd : {-5, 5}, volume_last : {10, 20}, std_last : {2, 4}]

InitBoth == Boot /\ rec_in \in BothInputs /\ search_call = NoSearch

\* the frame handed to both copies
BothFrame(in) == AdvancedFrame(in.bars, ScoreBase, in.slope, in.volume_last, in.std_last)

Called(fn) == \E s \in rec_seen : s.fn = fn

\* the value fn returned for rec_in
Returned(fn) == (CHOOSE s \in rec_seen : s.fn = fn).out

\* generate_trading_recommendation of money_savyy_website/app.py
RecommendApp ==
    /\ ~Called("app")
    /\ rec_out' = generate_trading_recommendation(BothFrame(rec_in), rec_in.pred,
                                                  rec_in.price, rec_in.rsi, rec_in.macd)
    /\ rec_seen' = rec_seen \cup {Seen("app", rec_in, rec_out')}
    /\ UNCHANGED <<series, threads, search_call, clock, cache, limiter, pc, symbol, real_price_data,
                   minimal_data, attempt, result, log, response, cache_read, rec_in>>

\* generate_trading_recommendation of advanced_stock_analyzer.py
RecommendAdvanced ==
    /\ ~Called("advanced")
    /\ rec_out' = advanced_generate_trading_recommendation(
                       BothFrame(rec_in), rec_in.pred, rec_in.price, rec_in.rsi,
                       rec_in.macd)
    /\ rec_seen' = rec_seen \cup {Seen("advanced", rec_in, rec_out')}
    /\ UNCHANGED <<series, threads, search_call, clock, cache, limiter, pc, symbol, real_price_data,
                   minimal_data, attempt, result, log, response, cache_read, rec_in>>

NextBoth == RecommendApp \/ RecommendAdvanced

SpecBoth == InitBoth /\ [][NextBoth]_vars

\* the arguments on which a statement of the try block raises: no frame or
\* an empty one (iloc[-1]), a prediction_info that cannot be indexed by the key
Raises(in) ==
    \/ in.bars <= 0
    \/ PredTruthy(in.pred) /\ PredRaises(in.pred)

\* C22: any exception raised inside generate_trading_recommendation, in
\* either copy, is caught and converted into the neutral result:
\* recommendation 'HOLD', confidence 'Low', score 0 and a single signal
\* naming the error; the function never raises to its caller
C22_ExceptionsCaught ==
    \A s \in rec_seen :
        /\ Raises(s.in) <=> s.out.raised
        /\ s.out.raised =>
               /\ s.out.recommendation = "HOLD"
               /\ s.out.confidence = "Low"
               /\ (IF s.fn = "app" THEN s.out.score ELSE s.out.score100) = 0
               /\ Len(s.out.signals) = 1
               /\ s.out.signals[1] \in {"Error", "Error in analysis"}

\* both copies were given a prediction_info without the key and answered
C22_Witness ==
    /\ rec_in.pred = MinimalModePrediction /\ rec_in.bars = 60
    /\ Called("app") /\ Called("advanced")
    /\ Returned("app").raised /\ Returned("advanced").raised

\* C23: a call of get_stock_data_with_retry that ends in 'FALLBACK_MODE'
\* leaves the cache unchanged: the failure is never written, so the next
\* request for the same symbol misses the cache and tries the live sources
C23_FallbackNotCached ==
    /\ [](pc = "analyze" /\ result = FALLBACK_MODE =>
              /\ cache_read.at >= 0 /\ cache_read.symbol = symbol
              /\ ~Truthy(cache_read.returned)
              /\ ~Truthy(load_from_cache(cache, symbol, clock)))
    /\ [](\A sym \in CacheSymbols :
              cache[get_cache_filename(sym)].data # FALLBACK_MODE)
    /\ [][result' = FALLBACK_MODE /\ result # FALLBACK_MODE => cache' = cache]_vars

\* a call that failed on every source while another symbol's file was cached
C23_Witness ==
    /\ pc = "analyze" /\ result = FALLBACK_MODE
    /\ cache_read.at >= 0 /\ cache_read.symbol = symbol
    /\ \E sym \in CacheSymbols : cache[get_cache_filename(sym)].file = "ok"

\* save and load for the symbols of the table alone
NextRoundTrip ==
    \/ \E d \in CacheSteps : Wait(d)
    \/ \E sym \in Symbols, data \in SavedResults : SaveCall(sym, data)
    \/ \E sym \in Symbols : LoadCall(sym)

SpecRoundTrip == Init /\ [][NextRoundTrip]_vars

----------------------------------------------------------------------------
(* rate_limit_yahoo_finance run by two request threads, one statement at a *)
(* time, on the unlocked module-level dicts.  A sleeping thread lets the    *)
(* other one run; the clock moves when a sleeper wakes.                     *)

MaxThreadCalls == 7

At(t) == threads.th[t].pc

\* thread t moves to position p; locals change as given
Goto(t, p, ct, wt, wk, sl) ==
    [threads EXCEPT !.th[t] = [pc |-> p, current_time |-> ct, wait_time |-> wt,
                               wake |-> wk, slept |-> sl]]

Move(t, p) ==
    LET me == threads.th[t]
    IN Goto(t, p, me.current_time, me.wait_time, me.wake, me.slept)

InFlight == Cardinality({t \in Threads : At(t) # "idle"})

ThreadFrame ==
    UNCHANGED <<series, search_call, cache, rl_call, pc, symbol, real_price_data, minimal_data,
                attempt, result, log, response, cache_read, scorer>>

\* current_time = time.time()
StmtTime(t) ==
    /\ At(t) = "idle"
    /\ Len(threads.returns) + InFlight < MaxThreadCalls
    /\ threads' = Goto(t, "check_window", clock, 0, 0, FALSE)
    /\ UNCHANGED <<clock, last_request_time, request_count>>
    /\ ThreadFrame

\* if 'yahoo' not in last_request_time or current_time - last_request_time['yahoo'] > 60
StmtCheckWindow(t) ==
    /\ At(t) = "check_window"
    /\ LET reset == \/ "yahoo" \notin DOMAIN last_request_time
                    \/ threads.th[t].current_time - last_request_time["yahoo"] > RATE_WINDOW
       IN threads' = Move(t, IF reset THEN "reset_count" ELSE "check_count")
    /\ UNCHANGED <<clock, last_request_time, request_count>>
    /\ ThreadFrame

\* request_count['yahoo'] = 0
StmtResetCount(t) ==
    /\ At(t) = "reset_count"
    /\ request_count' = DictSet(request_count, "yahoo", 0)
    /\ threads' = Move(t, "reset_time")
    /\ UNCHANGED <<clock, last_request_time>>
    /\ ThreadFrame

\* last_request_time['yahoo'] = current_time
StmtResetTime(t) ==
    /\ At(t) = "reset_time"
    /\ last_request_time' = DictSet(last_request_time, "yahoo", threads.th[t].current_time)
    /\ threads' = Move(t, "check_count")
    /\ UNCHANGED <<clock, request_count>>
    /\ ThreadFrame

\* if request_count.get('yahoo', 0) >= 5
StmtCheckCount(t) ==
    /\ At(t) = "check_count"
    /\ threads' = Move(t, IF DictGet(request_count, "yahoo", 0) >= RATE_MAX
                          THEN "wait_time" ELSE "increment")
    /\ UNCHANGED <<clock, last_request_time, request_count>>
    /\ ThreadFrame

\* wait_time = 60 - (current_time - last_request_time['yahoo']); if wait_time > 0
StmtWaitTime(t) ==
    /\ At(t) = "wait_time"
    /\ LET me == threads.th[t]
           wait_time == RATE_WINDOW - (me.current_time - last_request_time["yahoo"])
       IN threads' = Goto(t, IF wait_time > 0 THEN "sleep" ELSE "increment",
                          me.current_time, wait_time, me.wake, me.slept)
    /\ UNCHANGED <<clock, last_request_time, request_count>>
    /\ ThreadFrame

\* time.sleep(wait_time) begins
StmtSleep(t) ==
    /\ At(t) = "sleep"
    /\ LET me == threads.th[t]
       IN threads' = Goto(t, "sleeping", me.current_time, me.wait_time,
                          clock + me.wait_time, TRUE)
    /\ UNCHANGED <<clock, last_request_time, request_count>>
    /\ ThreadFrame

\* time.sleep(wait_time) returns
StmtWake(t) ==
    /\ At(t) = "sleeping"
    /\ clock' = IF clock < threads.th[t].wake THEN threads.th[t].wake ELSE clock
    /\ threads' = Move(t, "slept_count")
    /\ UNCHANGED <<last_request_time, request_count>>
    /\ ThreadFrame

\* request_count['yahoo'] = 0, after the sleep
StmtSleptCount(t) ==
    /\ At(t) = "slept_count"
    /\ request_count' = DictSet(request_count, "yahoo", 0)
    /\ threads' = Move(t, "slept_time")
    /\ UNCHANGED <<clock, last_request_time>>
    /\ ThreadFrame

\* last_request_time['yahoo'] = time.time(), after the sleep
StmtSleptTime(t) ==
    /\ At(t) = "slept_time"
    /\ last_request_time' = DictSet(last_request_time, "yahoo", clock)
    /\ threads' = Move(t, "increment")
    /\ UNCHANGED <<clock, request_count>>
    /\ ThreadFrame

\* request_count['yahoo'] = request_count.get('yahoo', 0) + 1, and return
StmtIncrement(t) ==
    /\ At(t) = "increment"
    /\ request_count' = DictSet(request_count, "yahoo",
                                DictGet(request_count, "yahoo", 0) + 1)
    /\ threads' = [Move(t, "idle") EXCEPT
                      !.returns = Append(@, [at |-> clock, slept |-> threads.th[t].slept])]
    /\ UNCHANGED <<clock, last_request_time>>
    /\ ThreadFrame

NextThreads ==
    \E t \in Threads :
        \/ StmtTime(t)
        \/ StmtCheckWindow(t)
        \/ StmtResetCount(t)
        \/ StmtResetTime(t)
        \/ StmtCheckCount(t)
        \/ StmtWaitTime(t)
        \/ StmtSleep(t)
        \/ StmtWake(t)
        \/ StmtSleptCount(t)
        \/ StmtSleptTime(t)
        \/ StmtIncrement(t)

SpecThreads == Init /\ [][NextThreads]_vars

\* calls that returned at or after time a and before time b
ReturnsIn(a, b) ==
    {i \in 1..Len(threads.returns) : threads.returns[i].at >= a /\ threads.returns[i].at < b}

\* C25: with two request threads interleaved at statement granularity, every
\* call is still counted (while no thread is inside the function the counter
\* is the number of calls that returned in the current window) and no more
\* than RATE_MAX calls return without sleeping within one window of
\* RATE_WINDOW seconds
C25_ThreadSafe ==
    /\ InFlight = 0 /\ "yahoo" \in DOMAIN last_request_time =>
           request_count["yahoo"] =
               Cardinality(ReturnsIn(last_request_time["yahoo"], clock + 1))
    /\ \A i \in 1..Len(threads.returns) :
           LET from == threads.returns[i].at
           IN Cardinality({j \in ReturnsIn(from, from + RATE_WINDOW) :
                              ~threads.returns[j].slept}) <= RATE_MAX

----------------------------------------------------------------------------
(* The last rule of search_stock_symbol *)

\* str.endswith(suffix)
endswith(chars, suffix) ==
    /\ Len(chars) >= Len(suffix)
    /\ SubSeq(chars, Len(chars) - Len(suffix) + 1, Len(chars)) = suffix

\* no rule of the dictionary applies to the normalised input
NoEntryMatches(x) ==
    /\ KeyIndex(x) = 0
    /\ first_partial(x, 1) = 0
    /\ best_close_match(x) = 0

\* C26: when no dictionary entry matches, search_stock_symbol returns the
\* upper-cased input and adds '.NS' only when the input does not already end
\* in '.ns' or '.bo'; an input with one of these suffixes comes back
\* upper-cased with no further suffix, never as 'XYZ.NS.NS'.
C26_NoDoubledSuffix ==
    search_call.done =>
        LET x == strip(lower(search_call.in))
            suffixed == \/ endswith(x, <<".", "n", "s">>)
                        \/ endswith(x, <<".", "b", "o">>)
        IN NoEntryMatches(x) =>
               /\ search_call.out.symbol =
                      (IF suffixed THEN upper(x) ELSE upper(x) \o <<".", "N", "S">>)
               /\ ~endswith(search_call.out.symbol, <<".", "N", "S", ".", "N", "S">>)

----------------------------------------------------------------------------
(* The synthetic close series of create_nse_historical_data and            *)
(* create_minimal_result, one loop iteration at a time. Prices are in      *)
(* hundredths of the unit of current_price; of the list 'prices' the model *)
(* keeps its length and the element appended last.                         *)

\* pd.date_range(..., periods=30, freq='D')
Periods == 30

MaxSeriesPrice == 2
MaxVariation == 20

SeriesPrices == 1..MaxSeriesPrice

\* draws of np.random.normal(0, current_price * 0.015), in hundredths
Variations == {-MaxVariation, -5, 0, 5, MaxVariation}

\* the volume argument
Volumes == {-4, 0, 4}

py_max(a, b) == IF a >= b THEN a ELSE b

py_min(a, b) == IF a <= b THEN a ELSE b

\* max(base_price + variation, current_price * 0.8)
new_price(base_price, variation, current_price) ==
    py_max(base_price + variation, 80 * current_price)

capped_Unbounded(price, current_price) == price

\* min(new_price, current_price * 1.2)
capped(price, current_price) == py_min(price, 120 * current_price)

\* random.randint(a, b) raises ValueError on an empty range
randint_raises(a, b) == a > b

\* a call of fn starts: base_price = current_price * 0.95, prices = []
StartSeries(fn, current_price, volume) ==
    [fn |-> fn, current_price |-> current_price, volume |-> volume, i |-> 0,
     base_price |-> 95 * current_price, len |-> 0, last |-> 0, returned |-> "-"]

SeriesFrame ==
    UNCHANGED <<threads, search_call, clock, cache, limiter, pc, symbol, real_price_data,
                minimal_data, attempt, result, log, response, cache_read, scorer>>

NoCallRunning == series.fn = "-" \/ series.returned # "-"

CallCreateNseHistoricalData(current_price, volume) ==
    /\ NoCallRunning
    /\ series' = StartSeries("create_nse_historical_data", current_price, volume)
    /\ SeriesFrame

CallCreateMinimalResult(current_price) ==
    /\ NoCallRunning
    /\ series' = StartSeries("create_minimal_result", current_price, 0)
    /\ SeriesFrame

\* one iteration of 'for i, variation in enumerate(price_variations)'
SeriesIteration(variation) ==
    /\ series.fn # "-" /\ series.returned = "-"
    /\ series.i < Periods
    /\ LET p == series.current_price
           np == new_price(series.base_price, variation, p)
           \* create_nse_historical_data caps new_price itself, and
           \* create_minimal_result only the value it appends
           kept == IF series.fn = "create_nse_historical_data" THEN capped(np, p) ELSE np
       IN IF series.i = Periods - 1
          THEN series' = [series EXCEPT !.i = @ + 1, !.len = @ + 1, !.last = 100 * p]
          ELSE series' = [series EXCEPT !.i = @ + 1, !.len = @ + 1,
                                        !.last = capped(np, p), !.base_price = kept]
    /\ SeriesFrame

\* the DataFrame is built and returned; in create_nse_historical_data a
\* ValueError of random.randint is caught and None is returned
SeriesReturn ==
    /\ series.fn # "-" /\ series.returned = "-"
    /\ series.i = Periods
    /\ IF /\ series.fn = "create_nse_historical_data"
          /\ randint_raises((-series.volume) \div 4, series.volume \div 4)
       THEN series' = [series EXCEPT !.returned = "None", !.len = 0, !.last = 0]
       ELSE series' = [series EXCEPT !.returned = "hist_data"]
    /\ SeriesFrame

NextSeries ==
    \/ \E p \in SeriesPrices, v \in Volumes : CallCreateNseHistoricalData(p, v)
    \/ \E p \in SeriesPrices : CallCreateMinimalResult(p)
    \/ \E variation \in Variations : SeriesIteration(variation)
    \/ SeriesReturn

SpecSeries == Init /\ [][NextSeries]_vars

\* C27: every synthetic 30-point close series that create_nse_historical_data
\* or create_minimal_result builds from a current price p > 0 ends with
\* exactly p, and each of its elements lies in [0.8p, 1.2p], whatever the
\* random variations are.
C27_SeriesBounds ==
    LET p == series.current_price
    IN /\ series.len > 0 =>
              /\ series.last >= 80 * p
              /\ series.last <= 120 * p
       /\ series.returned = "hist_data" =>
              /\ series.len = Periods
              /\ series.last = 100 * p

\* create_minimal_result returned a series although its running base price
\* had left the band upwards
C27_Witness ==
    /\ series.fn = "create_minimal_result"
    /\ series.returned = "hist_data"
    /\ series.base_price > 120 * series.current_price

\* C28: the two copies of the scorer agree: given the same price and volume
\* series, prediction info, current price, RSI and MACD,
\* generate_trading_recommendation of advanced_stock_analyzer.py and of
\* money_savyy_website/app.py return the same recommendation label.
C28_CopiesAgree ==
    Called("app") /\ Called("advanced") =>
        Returned("app").recommendation = Returned("advanced").recommendation

====
